---- MODULE Spec2Model ----
(***************************************************************************)
(* Model of tools/generate_static_fonts.py: the import guard, the batch    *)
(* driver main() and the single-instance operation generate_static_font(). *)
(* The font library, the filesystem and the interpreter's finalizer are    *)
(* the environment: each of their answers is a nondeterministic choice.    *)
(***************************************************************************)
EXTENDS Integers, Sequences, FiniteSets, TLC

\* ---------------------------------------------------------------- bounds
MaxFamilies == 2
MaxFiles == 2
MaxInstances == 3
MaxTableInstances == 4
MaxReplayInstances == 3

\* ------------------------------------------------- the configuration table
\* A shape is a sequence (families) of sequences (files) of instance counts.
FileShapes == 1..MaxInstances

FamilyShapes == UNION {[1..n -> FileShapes] : n \in 1..MaxFiles}

RECURSIVE SumSeq(_)
SumSeq(s) == IF s = <<>> THEN 0 ELSE Head(s) + SumSeq(Tail(s))

FamilySize(fam) == SumSeq(fam)

RECURSIVE ShapeSize(_)
ShapeSize(sh) == IF sh = <<>> THEN 0 ELSE FamilySize(Head(sh)) + ShapeSize(Tail(sh))

Shapes == {sh \in UNION {[1..n -> FamilyShapes] : n \in 1..MaxFamilies} :
             ShapeSize(sh) <= MaxTableInstances}

\* The weights the table pins: 400, 500, 700 for the first three instances.
Weight(k) == IF k = 1 THEN 400 ELSE IF k = 2 THEN 500 ELSE 200 * k + 100

InstanceSpec(j, k) == [name |-> <<j, k>>, wght |-> Weight(k)]

FileConfig(j, n) == [source |-> j, instances |-> [k \in 1..n |-> InstanceSpec(j, k)]]

FamilyConfig(f, fam) ==
    [source_dir |-> <<"src", f>>,
     dest_dir   |-> <<"dest", f>>,
     files      |-> [j \in 1..Len(fam) |-> FileConfig(j, fam[j])]]

MakeTable(sh) == [f \in 1..Len(sh) |-> FamilyConfig(f, sh[f])]

VARIABLES
    FONTS_TO_GENERATE,  \* the configuration table
    disk,               \* source files present on disk
    importable,         \* whether fontTools can be imported
    pinned,             \* environment answers fixed in advance (empty: free)
    pc,                 \* position of the process
    fi, fj, fk,         \* loop cursors: family, file, instance
    total_fonts,
    generated_fonts,
    ensured,            \* destination directories the run has ensured
    calls,              \* instances generate_static_font was invoked for
    openFonts,          \* fonts opened and not closed
    fs,                 \* output files: destination path -> content
    summary,            \* <<>> or <<generated, total>> as printed
    remediation,        \* the "pip install fonttools" message was printed
    exit,               \* <<>> while running, else <<status>>
    run,                \* 1 for the first run, 2 for a repeated run
    prev                \* result of the first run, <<>> before it ends

vars == <<FONTS_TO_GENERATE, disk, importable, pinned, pc, fi, fj, fk,
          total_fonts, generated_fonts, ensured, calls, openFonts, fs,
          summary, remediation, exit, run, prev>>


\* ------------------------------------------------------------ table access
Families == 1..Len(FONTS_TO_GENERATE)

files(f) == FONTS_TO_GENERATE[f].files

instances(f, j) == files(f)[j].instances

\* source_file = source_dir / file_config['source']
source_file(f, j) == <<FONTS_TO_GENERATE[f].source_dir, files(f)[j].source>>

\* dest_file = dest_dir / instance['name']
dest_file(f, j, k) == <<FONTS_TO_GENERATE[f].dest_dir, instances(f, j)[k].name>>

\* axes = {k: v for k, v in instance.items() if k != 'name'}
axes(instance) == [key \in DOMAIN instance \ {"name"} |-> instance[key]]

\* What a deterministic instancer produces from a source and pinned axes.
StaticFont(source_path, ax) == [source |-> source_path, axes |-> ax]

AllFiles == {<<f, j>> : f \in Families, j \in 1..MaxFiles} \cap
            {p \in (1..MaxFamilies) \X (1..MaxFiles) : p[2] <= Len(files(p[1]))}

AllInstances == {p \in (1..MaxFamilies) \X (1..MaxFiles) \X (1..MaxInstances) :
                   /\ p[1] \in Families
                   /\ p[2] <= Len(files(p[1]))
                   /\ p[3] <= Len(instances(p[1], p[2]))}

\* ---------------------------------------------------------- the environment
\* Whether the library / filesystem call at a point raises at a given step.
\* With no pinned answer the call may go either way.
Raises(step, point) ==
    IF point \in DOMAIN pinned THEN {pinned[point] = step} ELSE BOOLEAN

\* Variant of WriteFile: a file that already exists is removed, not replaced.
WriteFile_unlink(files_, path, content) ==
    IF path \in DOMAIN files_
    THEN [q \in DOMAIN files_ \ {path} |-> files_[q]]
    ELSE [q \in DOMAIN files_ \cup {path} |-> IF q = path THEN content ELSE files_[q]]

\* font.save(dest_path): the file is (over)written with the new content.
WriteFile(files_, path, content) ==
    [q \in DOMAIN files_ \cup {path} |-> IF q = path THEN content ELSE files_[q]]

\* ------------------------------------------------------------ loop cursors
AfterFamily(f) ==
    IF f < Len(FONTS_TO_GENERATE)
    THEN [pc |-> "family", fi |-> f + 1, fj |-> 0, fk |-> 0]
    ELSE [pc |-> "summary", fi |-> f + 1, fj |-> 0, fk |-> 0]

AfterFile(f, j) ==
    IF j < Len(files(f))
    THEN [pc |-> "file", fi |-> f, fj |-> j + 1, fk |-> 0]
    ELSE AfterFamily(f)

AfterInstance(f, j, k) ==
    IF k < Len(instances(f, j))
    THEN [pc |-> "instance", fi |-> f, fj |-> j, fk |-> k + 1]
    ELSE AfterFile(f, j)

Goto(c) == /\ pc' = c.pc /\ fi' = c.fi /\ fj' = c.fj /\ fk' = c.fk

\* Variant of ExitStatus: fails only when nothing at all was generated.
ExitStatus_loose(generated, total) == IF generated = 0 /\ total > 0 THEN 1 ELSE 0

\* if generated_fonts < total_fonts: sys.exit(1); otherwise status 0
ExitStatus(generated, total) == IF generated < total THEN 1 ELSE 0

\* ------------------------------------------------------------------- Init
Process0 ==
    /\ pc = "import"
    /\ fi = 0 /\ fj = 0 /\ fk = 0
    /\ total_fonts = 0
    /\ generated_fonts = 0
    /\ ensured = {}
    /\ calls = <<>>
    /\ openFonts = 0
    /\ summary = <<>>
    /\ remediation = FALSE
    /\ exit = <<>>

Init ==
    /\ \E sh \in Shapes : FONTS_TO_GENERATE = MakeTable(sh)
    /\ disk \in SUBSET {source_file(p[1], p[2]) : p \in AllFiles}
    /\ importable \in BOOLEAN
    /\ pinned = <<>>
    /\ fs = <<>>
    /\ run = 1
    /\ prev = <<>>
    /\ Process0

\* ---------------------------------------------------------------- actions
\* Variant of ImportGuard: the message is printed but the process goes on.
ImportGuard_continues ==
    /\ pc = "import"
    /\ pc' = "main"
    /\ remediation' = ~importable
    /\ UNCHANGED <<FONTS_TO_GENERATE, disk, importable, pinned, fi, fj, fk,
                   total_fonts, generated_fonts, ensured, calls, openFonts,
                   fs, summary, exit, run, prev>>

\* try: from fontTools... except ImportError: print(...); sys.exit(1)
ImportGuard ==
    /\ pc = "import"
    /\ IF importable
       THEN /\ pc' = "main"
            /\ UNCHANGED <<remediation, exit>>
       ELSE /\ pc' = "fatal"
            /\ remediation' = TRUE
            /\ exit' = <<1>>
    /\ UNCHANGED <<FONTS_TO_GENERATE, disk, importable, pinned, fi, fj, fk,
                   total_fonts, generated_fonts, ensured, calls, openFonts,
                   fs, summary, run, prev>>

\* main(): banner, total_fonts = 0, generated_fonts = 0, enter the family loop
MainStart ==
    /\ pc = "main"
    /\ total_fonts' = 0
    /\ generated_fonts' = 0
    /\ Goto(AfterFamily(0))
    /\ UNCHANGED <<FONTS_TO_GENERATE, disk, importable, pinned, ensured, calls,
                   openFonts, fs, summary, remediation, exit, run, prev>>

\* Variant of EnsureDestDir: the directory is not created.
EnsureDestDir_skipped ==
    /\ pc = "family"
    /\ Goto(AfterFile(fi, 0))
    /\ UNCHANGED <<FONTS_TO_GENERATE, disk, importable, pinned, total_fonts,
                   generated_fonts, ensured, calls, openFonts, fs, summary,
                   remediation, exit, run, prev>>

\* dest_dir.mkdir(parents=True, exist_ok=True), outside any try
EnsureDestDir ==
    /\ pc = "family"
    /\ \E raised \in Raises("mkdir", <<"mkdir", fi>>) :
         IF raised
         THEN /\ pc' = "crashed"
              /\ exit' = <<1>>
              /\ UNCHANGED <<fi, fj, fk, ensured>>
         ELSE /\ ensured' = ensured \cup {FONTS_TO_GENERATE[fi].dest_dir}
              /\ Goto(AfterFile(fi, 0))
              /\ UNCHANGED exit
    /\ UNCHANGED <<FONTS_TO_GENERATE, disk, importable, pinned, total_fonts,
                   generated_fonts, calls, openFonts, fs, summary, remediation,
                   run, prev>>

\* Variant of CheckSource: the instances of a missing source are tallied.
CheckSource_counting ==
    /\ pc = "file"
    /\ IF source_file(fi, fj) \in disk
       THEN /\ Goto(AfterInstance(fi, fj, 0))
            /\ UNCHANGED total_fonts
       ELSE /\ Goto(AfterFile(fi, fj))
            /\ total_fonts' = total_fonts + Len(instances(fi, fj))
    /\ UNCHANGED <<FONTS_TO_GENERATE, disk, importable, pinned,
                   generated_fonts, ensured, calls, openFonts, fs, summary,
                   remediation, exit, run, prev>>

\* if not source_file.exists(): print(...); continue
CheckSource ==
    /\ pc = "file"
    /\ IF source_file(fi, fj) \in disk
       THEN Goto(AfterInstance(fi, fj, 0))
       ELSE Goto(AfterFile(fi, fj))
    /\ UNCHANGED <<FONTS_TO_GENERATE, disk, importable, pinned, total_fonts,
                   generated_fonts, ensured, calls, openFonts, fs, summary,
                   remediation, exit, run, prev>>

\* total_fonts += 1; ...; generate_static_font(str(source_file), str(dest_file), axes)
CallGenerate ==
    /\ pc = "instance"
    /\ total_fonts' = total_fonts + 1
    /\ calls' = Append(calls, <<fi, fj, fk>>)
    /\ pc' = "load"
    /\ UNCHANGED <<FONTS_TO_GENERATE, disk, importable, pinned, fi, fj, fk,
                   generated_fonts, ensured, openFonts, fs, summary,
                   remediation, exit, run, prev>>

\* Variant of ReturnFalse: a failed instance ends its file's instance loop.
ReturnFalse_stops(opened) ==
    /\ \E reclaimed \in BOOLEAN :
         openFonts' = IF opened /\ reclaimed THEN openFonts - 1 ELSE openFonts
    /\ Goto(AfterFile(fi, fj))
    /\ UNCHANGED <<generated_fonts, fs>>

\* except Exception as e: print(...); return False
\* The font, if one was opened, is not closed here; whether the
\* interpreter's finalizer has released it by now is not determined.
ReturnFalse(opened) ==
    /\ \E reclaimed \in BOOLEAN :
         openFonts' = IF opened /\ reclaimed THEN openFonts - 1 ELSE openFonts
    /\ Goto(AfterInstance(fi, fj, fk))
    /\ UNCHANGED <<generated_fonts, fs>>

\* font = TTFont(source_path)
LoadFont ==
    /\ pc = "load"
    /\ \E raised \in Raises("load", <<"font", fi, fj, fk>>) :
         IF raised
         THEN ReturnFalse(FALSE)
         ELSE /\ openFonts' = openFonts + 1
              /\ pc' = "instantiate"
              /\ UNCHANGED <<fi, fj, fk, generated_fonts, fs>>
    /\ UNCHANGED <<FONTS_TO_GENERATE, disk, importable, pinned, total_fonts,
                   ensured, calls, summary, remediation, exit, run, prev>>

\* instancer.instantiateVariableFont(font, axes)
Instantiate ==
    /\ pc = "instantiate"
    /\ \E raised \in Raises("instantiate", <<"font", fi, fj, fk>>) :
         IF raised
         THEN ReturnFalse(TRUE)
         ELSE /\ pc' = "save"
              /\ UNCHANGED <<fi, fj, fk, generated_fonts, fs, openFonts>>
    /\ UNCHANGED <<FONTS_TO_GENERATE, disk, importable, pinned, total_fonts,
                   ensured, calls, summary, remediation, exit, run, prev>>

\* font.save(dest_path); font.close(); return True; generated_fonts += 1
SaveAndClose ==
    /\ pc = "save"
    /\ \E raised \in Raises("save", <<"font", fi, fj, fk>>) :
         IF raised
         THEN ReturnFalse(TRUE)
         ELSE /\ fs' = WriteFile(fs, dest_file(fi, fj, fk),
                                 StaticFont(source_file(fi, fj),
                                            axes(instances(fi, fj)[fk])))
              /\ openFonts' = openFonts - 1
              /\ generated_fonts' = generated_fonts + 1
              /\ Goto(AfterInstance(fi, fj, fk))
    /\ UNCHANGED <<FONTS_TO_GENERATE, disk, importable, pinned, total_fonts,
                   ensured, calls, summary, remediation, exit, run, prev>>

\* print(f"Generation complete: ..."); if generated_fonts < total_fonts: sys.exit(1)
Finish ==
    /\ pc = "summary"
    /\ summary' = <<generated_fonts, total_fonts>>
    /\ exit' = <<ExitStatus(generated_fonts, total_fonts)>>
    /\ pc' = "done"
    /\ UNCHANGED <<FONTS_TO_GENERATE, disk, importable, pinned, fi, fj, fk,
                   total_fonts, generated_fonts, ensured, calls, openFonts, fs,
                   remediation, run, prev>>

Next ==
    \/ ImportGuard
    \/ MainStart
    \/ EnsureDestDir
    \/ CheckSource
    \/ CallGenerate
    \/ LoadFont
    \/ Instantiate
    \/ SaveAndClose
    \/ Finish

Spec == Init /\ [][Next]_vars


\* ------------------------------------------------ a second, unchanged run
\* Environment answers a deterministic library and an unchanged filesystem
\* give: per family whether mkdir raises, per instance of a present source
\* which step of generate_static_font raises (if any).
MkdirPoints == {<<"mkdir", f>> : f \in Families}

FontPoints == {<<"font", p[1], p[2], p[3]>> :
                 p \in {q \in AllInstances : source_file(q[1], q[2]) \in disk}}

InitTwice ==
    /\ \E sh \in {s \in Shapes : ShapeSize(s) <= MaxReplayInstances} :
         FONTS_TO_GENERATE = MakeTable(sh)
    /\ disk \in SUBSET {source_file(p[1], p[2]) : p \in AllFiles}
    /\ importable \in BOOLEAN
    /\ \E m \in [MkdirPoints -> {"none", "mkdir"}],
          g \in [FontPoints -> {"none", "load", "instantiate", "save"}] :
         pinned = m @@ g
    /\ fs = <<>>
    /\ run = 1
    /\ prev = <<>>
    /\ Process0

Terminated == pc \in {"done", "crashed", "fatal"}

\* The process has ended; the tool is started again on what the first run left.
Rerun ==
    /\ Terminated
    /\ run = 1
    /\ run' = 2
    /\ prev' = [fs |-> fs, summary |-> summary, exit |-> exit]
    /\ pc' = "import"
    /\ fi' = 0 /\ fj' = 0 /\ fk' = 0
    /\ total_fonts' = 0
    /\ generated_fonts' = 0
    /\ ensured' = {}
    /\ calls' = <<>>
    /\ openFonts' = 0
    /\ summary' = <<>>
    /\ remediation' = FALSE
    /\ exit' = <<>>
    /\ UNCHANGED <<FONTS_TO_GENERATE, disk, importable, pinned, fs>>

NextTwice == Next \/ Rerun

SpecTwice == InitTwice /\ [][NextTwice]_vars


\* ============================================================ properties
Configured == Cardinality(AllInstances)

Present(p) == source_file(p[1], p[2]) \in disk

PresentInstances == {p \in AllInstances : Present(p)}

MissingFiles == {p \in AllFiles : source_file(p[1], p[2]) \notin disk}

\* Instances whose output file exists.
Generated == {p \in AllInstances : dest_file(p[1], p[2], p[3]) \in DOMAIN fs}

InCall == pc \in {"load", "instantiate", "save"}

\* Table position p lies before the cursor: its iteration has been entered.
Before(p) ==
    \/ p[1] < fi
    \/ /\ p[1] = fi
       /\ \/ p[2] < fj
          \/ /\ p[2] = fj
             /\ \/ p[3] < fk
                \/ p[3] = fk /\ InCall

Rank(p) == (p[1] * (MaxFiles + 2) + p[2]) * (MaxInstances + 2) + p[3]

\* C1: the process exits non-zero if and only if at least one configured
\* instance was not generated, an instance skipped for a missing source
\* counting as not generated.
C1_ExitNonZeroIffSomeInstanceNotGenerated ==
    exit # <<>> => (exit # <<0>> <=> Cardinality(Generated) < Configured)

\* C2: the total printed in the summary includes the instances of missing
\* source files, so each of them is tallied as a failure.
C2_SummaryTotalIncludesMissing ==
    pc = "done" => summary = <<Cardinality(Generated), Configured>>

\* C3: when main() has walked the table, the exit status is 0 if and only
\* if generated_fonts = total_fonts, and 1 otherwise.
C3_ExitZeroIffCountersEqual ==
    pc = "done" =>
        /\ exit \in {<<0>>, <<1>>}
        /\ exit = <<0>> <=> generated_fonts = total_fonts

C3_Witness ==
    /\ pc = "done"
    /\ exit = <<1>>
    /\ 0 < generated_fonts /\ generated_fonts < total_fonts
    /\ MissingFiles # {}

\* C4: generate_static_font is invoked exactly once, in table order, for
\* every instance of a present source the walk has come to and for no
\* instance of a missing source, whatever failed before; neither a failed
\* instance nor a missing source ends the walk.
C4_FailuresAreIsolated ==
    /\ {calls[i] : i \in 1..Len(calls)} = {p \in PresentInstances : Before(p)}
    /\ \A i \in 1..Len(calls) : \A h \in 1..Len(calls) :
          i < h => Rank(calls[i]) < Rank(calls[h])
    /\ pc = "crashed" => fj = 0 /\ fk = 0
    /\ pc = "done" => \A p \in AllInstances : Before(p)

C4_Witness ==
    /\ pc = "done"
    /\ Len(calls) >= 2
    /\ calls[1] \notin Generated
    /\ calls[Len(calls)] \in Generated
    /\ \E m \in MissingFiles : Rank(<<m[1], m[2], 0>>) < Rank(calls[Len(calls)])

\* C5: once processing has begun no error ends the run before the whole
\* table has been visited and the summary printed.
C5_OnlyMissingLibraryIsFatal ==
    (importable /\ exit # <<>>) =>
        /\ summary # <<>>
        /\ \A p \in AllInstances : Before(p)

\* C6: without the font library the process prints the remediation message
\* and exits with status 1 before any processing: no directory ensured, no
\* source checked, no instance attempted, no output written, no summary.
C6_MissingLibraryIsFatalBeforeProcessing ==
    ~importable =>
        /\ pc \in {"import", "fatal"}
        /\ pc = "fatal" => (remediation /\ exit = <<1>>)
        /\ ensured = {}
        /\ fi = 0 /\ fj = 0 /\ fk = 0
        /\ calls = <<>> /\ total_fonts = 0
        /\ openFonts = 0
        /\ fs = <<>>
        /\ summary = <<>>

C6_Witness == ~importable /\ pc = "fatal" /\ remediation /\ exit = <<1>>

\* C7: with a deterministic library and unchanged table and sources, a
\* second run rewrites every output with identical content and ends with
\* the same output files, the same summary counts and the same exit status.
C7_SecondRunIsIdempotent ==
    run = 2 =>
        /\ fs = prev.fs
        /\ Terminated => (summary = prev.summary /\ exit = prev.exit)

C7_Witness ==
    /\ run = 2
    /\ pc = "done"
    /\ 0 < generated_fonts /\ generated_fonts < total_fonts
    /\ Cardinality(DOMAIN fs) = generated_fonts

\* C8: whenever an instancing call has returned, the font it opened has
\* been closed, so at most one font is ever open.
C8_FontClosedWhenCallReturns ==
    /\ openFonts <= 1
    /\ ~InCall => openFonts = 0

\* C9: a family's destination directory is ensured before any of its source
\* files is checked and before any of its outputs is written, for every
\* family the walk comes to, also one whose sources are all missing.
C9_DestDirEnsuredFirst ==
    /\ \A f \in Families :
          (f < fi \/ (f = fi /\ pc \in {"file", "instance", "load", "instantiate", "save"}))
             => FONTS_TO_GENERATE[f].dest_dir \in ensured
    /\ \A i \in 1..Len(calls) : FONTS_TO_GENERATE[calls[i][1]].dest_dir \in ensured
    /\ \A path \in DOMAIN fs : path[1] \in ensured
    /\ pc = "done" => ensured = {FONTS_TO_GENERATE[f].dest_dir : f \in Families}

C9_Witness ==
    /\ pc = "done"
    /\ fs # <<>>
    /\ \E f \in Families :
          /\ \A j \in 1..Len(files(f)) : <<f, j>> \in MissingFiles
          /\ FONTS_TO_GENERATE[f].dest_dir \in ensured

\* C10: 0 <= generated_fonts <= total_fonts <= configured instances;
\* total_fonts is the number of calls started, generated_fonts the number
\* that returned True; after the walk total_fonts is the number of
\* configured instances whose source exists.
C10_CounterInvariant ==
    /\ 0 <= generated_fonts
    /\ generated_fonts <= total_fonts
    /\ total_fonts <= Configured
    /\ total_fonts = Len(calls)
    /\ generated_fonts = Cardinality(Generated)
    /\ pc \in {"summary", "done"} => total_fonts = Cardinality(PresentInstances)

C10_Witness ==
    /\ pc = "done"
    /\ 0 < generated_fonts
    /\ generated_fonts < total_fonts
    /\ total_fonts < Configured

====
